---- MODULE Spec2Model ----
(***************************************************************************)
(* A model of the tcping probe engine of src/main.py: Socket (one          *)
(* connection handle per attempt), Logger (the reporting collaborator,     *)
(* modelled as the sequence of calls made to it) and Ping (the probe loop  *)
(* Ping.ping / Ping._ping).                                                *)
(*                                                                         *)
(* One run of Ping(config).ping() is one behaviour.  pc is the position of *)
(* the single control flow; every statement of the loop body is one step,  *)
(* so that a KeyboardInterrupt can be delivered between any two of them.   *)
(* A call to a Logger method is recorded when the call is made.            *)
(*                                                                         *)
(* The clock ticks TicksPerSecond times a second.  The network's answer to *)
(* one connect call is drawn per attempt: the handshake completes after    *)
(* some delay, the peer refuses, nothing answers (filtered), or the name   *)
(* does not resolve.  KeyboardInterrupt deliveries are modelled for the    *)
(* Running part of the run, the body of _ping executed inside the try of   *)
(* ping.  No code closes a socket: a handle is closed when the runtime     *)
(* finalizes its Socket object.                                            *)
(***************************************************************************)
EXTENDS Integers, Sequences, FiniteSets, TLC

\* ------------------------------------------------------------ bounds
\* largest value of the --count option explored
MaxCount == 5
\* largest number of attempts explored in constant mode
MaxAttempts == 3
\* largest value of the --timeout option explored, in seconds
MaxTimeout == 1
\* resolution of the clock read by timer(), in ticks per second
TicksPerSecond == 4

\* ------------------------------------------------ program constants
\* (timer() - start) * 1000 : seconds to milliseconds
MsPerSecond == 1000

ResolveMessage == "Unable to resolve host"
UnexpectedMessage == "Unexpected error"

\* ------------------------------------------------------------- state
VARIABLES
    config,     \* the frozen Config of the run
    pc,         \* position of the control flow in ping / _ping
    i,          \* the attempt counter of _ping
    sock,       \* the Socket of the current iteration
    created,    \* how many Socket objects have been constructed
    result,     \* the local variable result of _ping
    results,    \* Ping._results, the history
    log,        \* the calls made to the Logger, in order
    net,        \* what the network answered to the last connect call
    raised,     \* the exception the last attempt raised ("none" if none)
    runtime,    \* how the Python runtime finalizes unreachable objects
    handles,    \* the OS socket handles made so far, by Socket id
    sleeps      \* how many time.sleep calls have returned

vars == <<config, pc, i, sock, created, result, results, log, net, raised,
          runtime, handles, sleeps>>

\* ------------------------------------------------------ data model
Config(count, timeout, ip_version, constant_ping) ==
    [count |-> count, timeout |-> timeout, ip_version |-> ip_version,
     constant_ping |-> constant_ping]

Configs ==
    { Config(c, t, v, cp) : c \in 0..MaxCount, t \in 0..MaxTimeout,
                            v \in {"IPv4", "IPv6"}, cp \in BOOLEAN }

PingResult(time, is_successful) ==
    [time |-> time, is_successful |-> is_successful]

\* the value of a name that is not bound yet
Unbound == PingResult(0, FALSE)

\* Socket.__init__: address family from ip_version, timeout from the config
Socket(cfg, id) ==
    [id |-> id,
     ip_type |-> IF cfg.ip_version = "IPv4" THEN "AF_INET" ELSE "AF_INET6",
     timeout |-> cfg.timeout,
     connects |-> 0]

NoSocket == [id |-> 0, ip_type |-> "none", timeout |-> 0, connects |-> 0]

\* the address tuple Socket.connect passes for the handle's family
ConnectAddress(s) ==
    IF s.ip_type = "AF_INET" THEN <<"host", "port">>
    ELSE <<"host", "port", 0, 0>>

\* The code never calls close(): a handle is closed when its Socket object
\* is finalized.  A reference-counting runtime (CPython) finalizes an object
\* as soon as nothing refers to it; a runtime with a tracing collector need
\* not do so before the run ends.
Runtimes == {"refcount", "tracing"}

\* socket.socket(...): a new open handle on which connect was not called
Handle == [open |-> TRUE, connects |-> 0]

\* the handles after the Socket with the given id has become unreachable
Unreachable(hs, id) ==
    IF runtime = "refcount" /\ id \in 1..Len(hs)
    THEN [hs EXCEPT ![id].open = FALSE]
    ELSE hs

\* the ids of the handles that are open
Open == { h \in 1..Len(handles) : handles[h].open }

\* ------------------------------------------------------- the network
\* delays (ticks) after which a listening peer completes the handshake
Delays == {0, 1, TicksPerSecond * MaxTimeout}

Answer(kind, delay) == [kind |-> kind, delay |-> delay]

Network ==
    { Answer("accept", d) : d \in Delays }
        \cup { Answer("refused", 0), Answer("filtered", 0),
               Answer("unresolvable", 0) }

NoAnswer == Answer("none", 0)

\* mutant of ConnectRaises: a refused connection is taken for a timeout
ConnectRaises_RefusedTimesOut(s, a) ==
    CASE a.kind = "unresolvable" -> "gaierror"
      [] a.kind = "refused" ->
            IF s.timeout = 0 THEN "BlockingIOError" ELSE "timeout"
      [] a.kind = "filtered" ->
            IF s.timeout = 0 THEN "BlockingIOError" ELSE "timeout"
      [] a.kind = "accept" ->
            IF s.timeout = 0
            THEN (IF a.delay = 0 THEN "none" ELSE "BlockingIOError")
            ELSE (IF a.delay < s.timeout * TicksPerSecond THEN "none"
                  ELSE "timeout")

\* What sock.connect() does on a handle with the given timeout (seconds):
\* the name of the exception it raises, or "none" when it returns.
\* settimeout(0) puts the handle in non-blocking mode: a connect that does
\* not complete at once raises BlockingIOError, never socket.timeout.
ConnectRaises(s, a) ==
    CASE a.kind = "unresolvable" -> "gaierror"
      [] a.kind = "refused" ->
            IF s.timeout = 0 THEN "BlockingIOError"
            ELSE "ConnectionRefusedError"
      [] a.kind = "filtered" ->
            IF s.timeout = 0 THEN "BlockingIOError" ELSE "timeout"
      [] a.kind = "accept" ->
            IF s.timeout = 0
            THEN (IF a.delay = 0 THEN "none" ELSE "BlockingIOError")
            ELSE (IF a.delay < s.timeout * TicksPerSecond THEN "none"
                  ELSE "timeout")

\* estimated = (timer() - start) * 1000: two clock readings (ticks) to
\* milliseconds
Estimated(start, end) == ((end - start) * MsPerSecond) \div TicksPerSecond

\* ------------------------------------------------------- the Logger
Entry(kind, message, r) == [kind |-> kind, message |-> message, result |-> r]

StartEntry == Entry("start", "", Unbound)
ResultEntry(r) == Entry("result", "", r)
ErrorEntry(message) == Entry("error", message, Unbound)
ShutdownEntry == Entry("shutdown", "", Unbound)

RECURSIVE CountKind(_, _)
CountKind(s, kind) ==
    IF s = <<>> THEN 0
    ELSE (IF s[1].kind = kind THEN 1 ELSE 0) + CountKind(Tail(s), kind)

Starts == CountKind(log, "start")
Reports == CountKind(log, "result")
Errors == CountKind(log, "error")
Shutdowns == CountKind(log, "shutdown")

\* ---------------------------------------------------------- the run
Init ==
    /\ config \in Configs
    /\ pc = "start"
    /\ i = 0
    /\ sock = NoSocket
    /\ created = 0
    /\ result = Unbound
    /\ results = <<>>
    /\ log = <<>>
    /\ net = NoAnswer
    /\ raised = "none"
    /\ runtime \in Runtimes
    /\ handles = <<>>
    /\ sleeps = 0

\* mutant of Continue: the comparison admits one attempt too many
Continue_Inclusive(n, cfg) == n <= cfg.count \/ cfg.constant_ping

\* mutant of Continue: the constant_ping flag is not consulted
Continue_CountOnly(n, cfg) == n < cfg.count

\* the while condition of _ping
Continue(n, cfg) == n < cfg.count \/ cfg.constant_ping

\* ping: self._logger.log_start(), then the try is entered and _ping called
LogStart ==
    /\ pc = "start"
    /\ log' = Append(log, StartEntry)
    /\ pc' = "enter"
    /\ UNCHANGED <<runtime, handles, sleeps, config, i, sock, created, result,
                   results, net, raised>>

\* _ping: i = 0
Enter ==
    /\ pc = "enter"
    /\ i' = 0
    /\ pc' = "while"
    /\ UNCHANGED <<runtime, handles, sleeps, config, sock, created, result,
                   results, log, net, raised>>

\* _ping: one evaluation of the while condition; when it is false _ping
\* returns (its frame, and with it sock, is gone) and ping goes on to
\* log_shutdown
While ==
    /\ pc = "while"
    /\ config.constant_ping => i < MaxAttempts
    /\ pc' = IF Continue(i, config) THEN "socket" ELSE "shutdown"
    /\ handles' = IF Continue(i, config) THEN handles
                  ELSE Unreachable(handles, sock.id)
    /\ UNCHANGED <<runtime, sleeps, config, i, sock, created, result, results,
                   log, net, raised>>

\* mutant of NewSocket: the Socket is made once and used by every iteration
NewSocket_Reuses ==
    /\ pc = "socket"
    /\ created' = IF created = 0 THEN 1 ELSE created
    /\ sock' = IF created = 0 THEN Socket(config, 1) ELSE sock
    /\ handles' = IF created = 0 THEN <<Handle>> ELSE handles
    /\ raised' = "none"
    /\ pc' = "connect"
    /\ UNCHANGED <<runtime, sleeps, config, i, result, results, log, net>>

\* _ping: sock = Socket(self._config): a new handle is opened, and the
\* rebinding of sock leaves the previous iteration's Socket unreachable
NewSocket ==
    /\ pc = "socket"
    /\ created' = created + 1
    /\ sock' = Socket(config, created + 1)
    /\ handles' = Append(Unreachable(handles, sock.id), Handle)
    /\ raised' = "none"
    /\ pc' = "connect"
    /\ UNCHANGED <<runtime, sleeps, config, i, result, results, log, net>>

\* _ping: socket.socket(...) raises an OSError; the statement is outside the
\* inner try, so the exception leaves _ping
NewSocketFails ==
    /\ pc = "socket"
    /\ raised' = "OSError"
    /\ pc' = "except"
    /\ UNCHANGED <<runtime, handles, sleeps, config, i, sock, created, result,
                   results, log, net>>

\* mutant of AfterConnect: gaierror is handled like a timeout
AfterConnect_ResolveContinues(exc) ==
    CASE exc = "none" -> "append"
      [] exc = "timeout" -> "append"
      [] exc = "gaierror" -> "append"
      [] OTHER -> "except"

\* mutant of AfterConnect: every OSError is handled like a timeout
AfterConnect_FaultContinues(exc) ==
    CASE exc = "none" -> "append"
      [] exc = "timeout" -> "append"
      [] exc = "gaierror" -> "resolve_error"
      [] OTHER -> "append"

\* where the inner try of _ping goes for what connect raised
AfterConnect(exc) ==
    CASE exc = "none" -> "append"
      [] exc = "timeout" -> "append"
      [] exc = "gaierror" -> "resolve_error"
      [] OTHER -> "except"

\* mutant of ResultOf: a timed-out attempt keeps the measured time
ResultOf_TimeoutKeepsTime(exc, a) ==
    CASE exc = "none" -> PingResult(Estimated(0, a.delay), TRUE)
      [] exc = "timeout" -> PingResult(Estimated(0, a.delay), FALSE)
      [] OTHER -> result

\* the result the inner try of _ping binds for what connect raised
ResultOf(exc, a) ==
    CASE exc = "none" -> PingResult(Estimated(0, a.delay), TRUE)
      [] exc = "timeout" -> PingResult(0, FALSE)
      [] OTHER -> result

\* _ping: the inner try: start = timer(); sock.connect(); estimated = ...;
\* and the except clauses that classify what connect raised
Connect ==
    /\ pc = "connect"
    /\ \E a \in Network :
        LET exc == ConnectRaises(sock, a) IN
        /\ net' = a
        /\ raised' = exc
        /\ sock' = [sock EXCEPT !.connects = @ + 1]
        /\ result' = ResultOf(exc, a)
        /\ pc' = AfterConnect(exc)
    /\ handles' = [handles EXCEPT ![sock.id].connects = @ + 1]
    /\ UNCHANGED <<runtime, sleeps, config, i, created, results, log>>

\* mutant of ResolveError: the gaierror is reported and raised again
ResolveError_Reraises ==
    /\ pc = "resolve_error"
    /\ log' = Append(log, ErrorEntry(ResolveMessage))
    /\ pc' = "except"
    /\ UNCHANGED <<runtime, handles, sleeps, config, i, sock, created, result,
                   results, net, raised>>

\* _ping: return self._logger.log_error('Unable to resolve host')
ResolveError ==
    /\ pc = "resolve_error"
    /\ log' = Append(log, ErrorEntry(ResolveMessage))
    /\ handles' = Unreachable(handles, sock.id)
    /\ pc' = "shutdown"
    /\ UNCHANGED <<runtime, sleeps, config, i, sock, created, result, results,
                   net, raised>>

\* mutant of AppendResult: the history keeps the latest result only
AppendResult_Overwrites ==
    /\ pc = "append"
    /\ results' = <<result>>
    /\ pc' = "log_result"
    /\ UNCHANGED <<runtime, handles, sleeps, config, i, sock, created, result,
                   log, net, raised>>

\* _ping: self._results.append(result)
AppendResult ==
    /\ pc = "append"
    /\ results' = Append(results, result)
    /\ pc' = "log_result"
    /\ UNCHANGED <<runtime, handles, sleeps, config, i, sock, created, result,
                   log, net, raised>>

\* mutant of LogResult: no pacing sleep after the last attempt
LogResult_SkipsLastSleep ==
    /\ pc = "log_result"
    /\ log' = Append(log, ResultEntry(result))
    /\ pc' = IF Continue(i + 1, config) THEN "sleep" ELSE "incr"
    /\ UNCHANGED <<runtime, handles, sleeps, config, i, sock, created, result,
                   results, net, raised>>

\* _ping: self._logger.log_result(result)
LogResult ==
    /\ pc = "log_result"
    /\ log' = Append(log, ResultEntry(result))
    /\ pc' = "sleep"
    /\ UNCHANGED <<runtime, handles, sleeps, config, i, sock, created, result,
                   results, net, raised>>

\* _ping: time.sleep(self._config.interval) returns
Sleep ==
    /\ pc = "sleep"
    /\ sleeps' = sleeps + 1
    /\ pc' = "incr"
    /\ UNCHANGED <<runtime, handles, config, i, sock, created, result,
                   results, log, net, raised>>

\* mutant of Increment: the counter is left as it is
Increment_Stays ==
    /\ pc = "incr"
    /\ i' = i
    /\ pc' = "while"
    /\ UNCHANGED <<runtime, handles, sleeps, config, sock, created, result,
                   results, log, net, raised>>

\* mutant of Increment: the counter skips a value
Increment_ByTwo ==
    /\ pc = "incr"
    /\ i' = i + 2
    /\ pc' = "while"
    /\ UNCHANGED <<runtime, handles, sleeps, config, sock, created, result,
                   results, log, net, raised>>

\* _ping: i += 1, and back to the while condition
Increment ==
    /\ pc = "incr"
    /\ i' = i + 1
    /\ pc' = "while"
    /\ UNCHANGED <<runtime, handles, sleeps, config, sock, created, result,
                   results, log, net, raised>>

\* the positions of the Running part of the run: the body of _ping
RunningPcs ==
    {"while", "socket", "connect", "append", "log_result", "sleep", "incr"}

\* mutant of Interrupt: the interrupted iteration is counted
Interrupt_CountsAttempt ==
    /\ pc \in RunningPcs
    /\ raised' = "KeyboardInterrupt"
    /\ i' = i + 1
    /\ pc' = "except_interrupt"
    /\ UNCHANGED <<runtime, handles, sleeps, config, sock, created, result,
                   results, log, net>>

\* a KeyboardInterrupt is delivered while _ping runs: in the blocking connect
\* or sleep, or between two statements of the loop; it leaves _ping
Interrupt ==
    /\ pc \in RunningPcs
    /\ raised' = "KeyboardInterrupt"
    /\ pc' = "except_interrupt"
    /\ UNCHANGED <<runtime, handles, sleeps, config, i, sock, created, result,
                   results, log, net>>

\* mutant of ExceptKeyboardInterrupt: the interruption is reported as an error
ExceptKeyboardInterrupt_Reports ==
    /\ pc = "except_interrupt"
    /\ log' = Append(log, ErrorEntry(UnexpectedMessage))
    /\ handles' = Unreachable(handles, sock.id)
    /\ pc' = "shutdown"
    /\ UNCHANGED <<runtime, sleeps, config, i, sock, created, result, results,
                   net, raised>>

\* ping: except KeyboardInterrupt: pass; with the handler done the exception
\* and the frame of _ping it refers to, and with it sock, are gone
ExceptKeyboardInterrupt ==
    /\ pc = "except_interrupt"
    /\ handles' = Unreachable(handles, sock.id)
    /\ pc' = "shutdown"
    /\ UNCHANGED <<runtime, sleeps, config, i, sock, created, result, results,
                   log, net, raised>>

\* mutant of ExceptAny: the handler leaves ping after reporting
ExceptAny_Returns ==
    /\ pc = "except"
    /\ log' = Append(log, ErrorEntry(UnexpectedMessage))
    /\ handles' = Unreachable(handles, sock.id)
    /\ pc' = "done"
    /\ UNCHANGED <<runtime, sleeps, config, i, sock, created, result, results,
                   net, raised>>

\* ping: except: self._logger.log_error('Unexpected error'); with the handler
\* done the exception and the frame of _ping it refers to are gone
ExceptAny ==
    /\ pc = "except"
    /\ log' = Append(log, ErrorEntry(UnexpectedMessage))
    /\ handles' = Unreachable(handles, sock.id)
    /\ pc' = "shutdown"
    /\ UNCHANGED <<runtime, sleeps, config, i, sock, created, result, results,
                   net, raised>>

\* ping: self._logger.log_shutdown(), and ping returns
LogShutdown ==
    /\ pc = "shutdown"
    /\ log' = Append(log, ShutdownEntry)
    /\ pc' = "done"
    /\ UNCHANGED <<runtime, handles, sleeps, config, i, sock, created, result,
                   results, net, raised>>

Next ==
    \/ LogStart
    \/ Enter
    \/ While
    \/ NewSocket
    \/ NewSocketFails
    \/ Connect
    \/ ResolveError
    \/ AppendResult
    \/ LogResult
    \/ Sleep
    \/ Increment
    \/ Interrupt
    \/ ExceptKeyboardInterrupt
    \/ ExceptAny
    \/ LogShutdown

Spec == Init /\ [][Next]_vars

\* a step of the program itself: every step but the delivery of an
\* interruption, which is the environment's
Step ==
    \/ LogStart
    \/ Enter
    \/ While
    \/ NewSocket
    \/ NewSocketFails
    \/ Connect
    \/ ResolveError
    \/ AppendResult
    \/ LogResult
    \/ Sleep
    \/ Increment
    \/ ExceptKeyboardInterrupt
    \/ ExceptAny
    \/ LogShutdown

\* the run under the assumption that every call returns or raises: connect
\* within the timeout set on the handle, time.sleep after the interval, the
\* Logger at once; the single control flow then always takes its next step
FairSpec == Init /\ [][Next]_vars /\ WF_vars(Step)

\* ------------------------------------------- the states of the run
\* the state of the probe loop's state machine the run is in
State ==
    CASE pc = "start" -> "Starting"
      [] pc \in {"enter"} \cup RunningPcs -> "Running"
      [] raised = "KeyboardInterrupt" -> "Interrupted"
      [] raised \in {"none", "timeout"} -> "Finished"
      [] OTHER -> "Aborted"

Terminated == pc = "done"

\* the most attempts a run explored here makes
MostAttempts == IF MaxCount > MaxAttempts THEN MaxCount ELSE MaxAttempts

TypeOK ==
    /\ config \in Configs
    /\ i \in 0..MostAttempts
    /\ created \in 0..MostAttempts
    /\ Len(results) <= MostAttempts
    /\ Len(log) <= MostAttempts + 3
    /\ runtime \in Runtimes
    /\ Len(handles) = created
    /\ sleeps \in 0..MostAttempts

\* ------------------------------------------------------------ claims
Last(s) == s[Len(s)]

TerminalStates == {"Finished", "Aborted", "Interrupted"}

Timeout == PingResult(0, FALSE)

\* the log is one start, n results, then the given tail
LogIs(n, tail) ==
    /\ Len(log) = 1 + n + Len(tail)
    /\ log[1] = StartEntry
    /\ \A k \in 2..(n + 1) : log[k] = ResultEntry(results[k - 1])
    /\ \A k \in 1..Len(tail) : log[1 + n + k] = tail[k]

\* C1: a bounded run (count = N, not constant) in which every attempt ended
\* in success or timeout and no interruption arrived has made exactly N
\* log_result calls, then exactly one log_shutdown, and no log_error call.
C1_ExactlyNResults ==
    (Terminated /\ ~config.constant_ping /\ State = "Finished") =>
        /\ Reports = config.count
        /\ Errors = 0
        /\ Shutdowns = 1
        /\ Len(results) = config.count
        /\ LogIs(config.count, <<ShutdownEntry>>)

C1_Witness ==
    /\ Terminated /\ ~config.constant_ping /\ State = "Finished"
    /\ config.count = 3
    /\ \E k \in 1..Len(results) : results[k].is_successful
    /\ \E k \in 1..Len(results) : ~results[k].is_successful

\* C2: whichever terminal state the run reaches (Finished, Aborted,
\* Interrupted), log_shutdown is called exactly once, as the last call of
\* the run; no terminal state is left without a step towards it.
C2_ShutdownOnce ==
    /\ Shutdowns <= 1
    /\ Shutdowns = 1 <=> Terminated
    /\ Terminated => State \in TerminalStates /\ Last(log) = ShutdownEntry
    /\ State \in TerminalStates /\ ~Terminated =>
          pc \in {"resolve_error", "except", "except_interrupt", "shutdown"}
    /\ \A k \in 1..(Len(log) - 1) : log[k].kind # "shutdown"

C2_Witness ==
    /\ Terminated /\ State = "Aborted"
    /\ Reports >= 1
    /\ Last(log) = ShutdownEntry

\* C3: when name resolution fails on attempt k of a bounded run, k-1 results
\* have been appended and reported, 'Unable to resolve host' is the one
\* error, log_shutdown follows once, nothing is appended or reported for
\* attempt k and no attempt after k is made (k sockets, counter at k-1).
C3_ResolutionFailure ==
    (raised = "gaierror" /\ ~config.constant_ping) =>
        /\ pc \in {"resolve_error", "shutdown", "done"}
        /\ created >= 1 /\ created <= config.count
        /\ i = created - 1
        /\ Len(results) = created - 1
        /\ Reports = created - 1
        /\ pc = "resolve_error" => Errors = 0
        /\ pc = "shutdown" => LogIs(created - 1, <<ErrorEntry(ResolveMessage)>>)
        /\ Terminated =>
              /\ Errors = 1
              /\ Shutdowns = 1
              /\ LogIs(created - 1,
                       <<ErrorEntry(ResolveMessage), ShutdownEntry>>)

C3_Witness ==
    /\ Terminated /\ raised = "gaierror" /\ ~config.constant_ping
    /\ config.count = 5
    /\ created = 3
    /\ Reports = 2

\* C4: a KeyboardInterrupt delivered at any position of the loop body stops
\* the loop at once: from then on no socket is created, nothing is appended
\* or reported, the counter stays, log_error is never called, and
\* log_shutdown is called exactly once, last.
C4_InterruptStops ==
    /\ [](State = "Interrupted" =>
            /\ Errors = 0
            /\ pc \in {"except_interrupt", "shutdown", "done"}
            /\ Terminated => Shutdowns = 1 /\ Last(log) = ShutdownEntry)
    /\ [][State' = "Interrupted" =>
            /\ created' = created
            /\ i' = i
            /\ results' = results
            /\ Reports' = Reports
            /\ Errors' = 0]_vars

C4_Witness ==
    /\ Terminated /\ State = "Interrupted"
    /\ config.count = 5
    /\ created = 2
    /\ Reports = 2
    /\ i = 1

\* C5: a timed-out attempt binds the result (time 0, not successful), which
\* is appended and reported like a success; the run stays Running, reports
\* no error, and ends after it only by the loop condition becoming false.
C5_TimeoutIsAResult ==
    /\ \A k \in 1..Len(results) :
          results[k].is_successful \/ results[k].time = 0
    /\ raised = "timeout" =>
          /\ pc \in {"append", "log_result", "sleep", "incr", "while",
                     "socket", "shutdown", "done"}
          /\ Errors = 0
          /\ pc = "append" => result = Timeout /\ Len(results) = i
          /\ pc \in {"log_result", "sleep", "incr"} =>
                Len(results) = i + 1 /\ Last(results) = Timeout
          /\ pc = "log_result" => Reports = i
          /\ pc \in {"sleep", "incr"} =>
                Reports = i + 1 /\ Last(log) = ResultEntry(Timeout)
          /\ pc \in {"while", "socket"} =>
                Reports = i /\ Last(log) = ResultEntry(Timeout)
          /\ pc \in {"shutdown", "done"} => ~Continue(i, config)

C5_Witness ==
    /\ raised = "timeout"
    /\ pc = "socket"
    /\ i = 2
    /\ Last(results) = Timeout
    /\ results[1].is_successful

\* C6 as stated: host reachable, port closed (refused) or filtered,
\* timeout 1 s, count = 1: one result (not successful, time 0), no error.
C6_ClosedPortIsAResult ==
    (/\ Terminated /\ ~config.constant_ping /\ config.count = 1
     /\ config.timeout = 1
     /\ created = 1 /\ sock.connects = 1
     /\ net.kind \in {"refused", "filtered"}
     /\ State # "Interrupted") =>
        /\ Reports = 1
        /\ results = <<Timeout>>
        /\ Errors = 0

\* C6 amended: with a timeout > 0 and count = 1, a filtered port (no answer)
\* gives one result (not successful, time 0) and no error; a closed port
\* (connection refused) gives no result and the one 'Unexpected error'.
C6_FilteredPortIsAResult ==
    (/\ Terminated /\ ~config.constant_ping /\ config.count = 1
     /\ config.timeout > 0
     /\ created = 1 /\ sock.connects = 1
     /\ State # "Interrupted") =>
        /\ net.kind = "filtered" =>
              /\ Reports = 1
              /\ results = <<Timeout>>
              /\ Errors = 0
              /\ LogIs(1, <<ShutdownEntry>>)
        /\ net.kind = "refused" =>
              /\ Reports = 0
              /\ results = <<>>
              /\ LogIs(0, <<ErrorEntry(UnexpectedMessage), ShutdownEntry>>)

C6_Witness ==
    /\ Terminated /\ ~config.constant_ping /\ config.count = 1
    /\ config.timeout > 0
    /\ net.kind = "filtered"
    /\ State = "Finished"
    /\ Reports = 1

\* C7: a fault of an attempt other than timeout and resolution failure
\* (socket creation or connect) is fatal: nothing is appended or reported
\* for the attempt, no further attempt is made, 'Unexpected error' (not the
\* resolution message) is the one error, and log_shutdown follows once.
C7_FaultIsFatal ==
    raised \notin {"none", "timeout", "gaierror", "KeyboardInterrupt"} =>
        /\ pc \in {"except", "shutdown", "done"}
        /\ State = "Aborted"
        /\ Len(results) = i
        /\ Reports = i
        /\ created \in {i, i + 1}
        /\ pc = "except" => Errors = 0
        /\ pc = "shutdown" => LogIs(i, <<ErrorEntry(UnexpectedMessage)>>)
        /\ Terminated =>
              /\ Errors = 1
              /\ Shutdowns = 1
              /\ LogIs(i, <<ErrorEntry(UnexpectedMessage), ShutdownEntry>>)
              /\ UnexpectedMessage # ResolveMessage

C7_Witness ==
    /\ Terminated
    /\ raised = "ConnectionRefusedError"
    /\ i = 2
    /\ created = 3
    /\ Errors = 1

\* C8 as stated: with timeout = 0 an attempt whose connection does not
\* complete at once is a timeout: result (time 0, not successful), the loop
\* continues, nothing fatal.
C8_ZeroTimeoutIsATimeout ==
    (/\ config.timeout = 0
     /\ created = i + 1 /\ sock.connects = 1
     /\ net.kind = "filtered" \/ (net.kind = "accept" /\ net.delay > 0)
     /\ raised # "KeyboardInterrupt") =>
        /\ raised = "timeout"
        /\ State # "Aborted"
        /\ pc = "append" => result = Timeout

\* C9: in constant mode the loop condition is true at every evaluation,
\* whatever count and the attempt counter are; the run is never Finished,
\* it ends only Aborted or Interrupted.
C9_ConstantNeverFinishes ==
    config.constant_ping =>
        /\ State # "Finished"
        /\ pc = "while" => Continue(i, config)
        /\ Terminated => State \in {"Aborted", "Interrupted"}

C9_Witness ==
    /\ config.constant_ping
    /\ config.count = 0
    /\ pc = "while"
    /\ i = 3

\* C10: log_start is called exactly once, before any socket is created;
\* with count = 0 and not constant the run is log_start then log_shutdown,
\* with no attempt, no result and no error.
C10_StartOnce ==
    /\ Starts <= 1
    /\ pc = "start" => log = <<>> /\ created = 0
    /\ pc # "start" => Starts = 1 /\ log[1] = StartEntry
    /\ created > 0 => log[1] = StartEntry
    /\ (Terminated /\ config.count = 0 /\ ~config.constant_ping) =>
          /\ log = <<StartEntry, ShutdownEntry>>
          /\ created = 0
          /\ results = <<>>
          /\ Errors = 0

C10_Witness ==
    /\ Terminated /\ config.count = 0 /\ ~config.constant_ping
    /\ log = <<StartEntry, ShutdownEntry>>

\* C11 as stated: the handle an attempt opened is released on every exit
\* path of the attempt: a handle is open only while its attempt is in
\* flight, so at most one is open at any time and none at shutdown.
C11_HandleReleased ==
    /\ \A h \in Open : h = sock.id /\ pc = "connect"
    /\ Cardinality(Open) <= 1
    /\ pc \in {"shutdown", "done"} => Open = {}

\* C12: log_error is called at most once in a run, and only in an Aborted
\* run: a Finished or Interrupted run has none, and a resolution failure is
\* reported once, by _ping, and not again by the handler of ping.
C12_ErrorAtMostOnce ==
    /\ Errors <= 1
    /\ Errors = 1 => State = "Aborted"
    /\ State \in {"Starting", "Running", "Finished", "Interrupted"} =>
          Errors = 0
    /\ (raised = "gaierror" /\ pc \in {"shutdown", "done"}) =>
          /\ Errors = 1
          /\ \A k \in 1..Len(log) :
                log[k].kind = "error" => log[k] = ErrorEntry(ResolveMessage)
    /\ (Terminated /\ State = "Aborted") => Errors = 1

C12_Witness ==
    /\ Terminated
    /\ raised = "gaierror"
    /\ Errors = 1
    /\ Reports = 1

\* C13: an attempt that completed runs append, log_result, sleep, i += 1
\* and the loop test in this order; the sleep is made after the last attempt
\* of a bounded run too, so log_shutdown comes after it; an interruption
\* during that last sleep ends the run with count results reported, no
\* error and one log_shutdown.
C13_StepOrder ==
    /\ pc = "append" => Len(results) = i /\ Reports = i /\ sleeps = i
    /\ pc = "log_result" =>
          Len(results) = i + 1 /\ Reports = i /\ sleeps = i
    /\ pc = "sleep" =>
          Len(results) = i + 1 /\ Reports = i + 1 /\ sleeps = i
    /\ pc = "incr" =>
          Len(results) = i + 1 /\ Reports = i + 1 /\ sleeps = i + 1
    /\ pc = "while" => Len(results) = i /\ Reports = i /\ sleeps = i
    /\ (State = "Finished" /\ ~config.constant_ping) =>
          /\ sleeps = config.count
          /\ Reports = config.count
          /\ pc = "shutdown" => Shutdowns = 0
    /\ (/\ Terminated /\ State = "Interrupted" /\ ~config.constant_ping
        /\ Reports = config.count /\ sleeps = config.count - 1) =>
          /\ i = config.count - 1
          /\ Errors = 0
          /\ Shutdowns = 1
          /\ LogIs(config.count, <<ShutdownEntry>>)

C13_Witness ==
    /\ Terminated /\ State = "Interrupted" /\ ~config.constant_ping
    /\ config.count = 3
    /\ Reports = 3
    /\ sleeps = 2

\* C14: the attempt counter is 0 at the start, changes only by +1 and only
\* once the attempt's result has been appended, reported and paced, never
\* decreases, and in a bounded run never exceeds count: at most count
\* sockets are made and at most count results reported, whatever happens.
C14_CounterBounded ==
    /\ [](/\ i >= 0
          /\ pc \in {"start", "enter"} => i = 0
          /\ ~config.constant_ping =>
                /\ i <= config.count
                /\ created <= config.count
                /\ Reports <= config.count)
    /\ [][\/ i' = i
          \/ /\ i' = i + 1
             /\ pc = "incr"
             /\ Len(results) = i + 1
             /\ Reports = i + 1
             /\ sleeps = i + 1]_vars

C14_Witness ==
    /\ ~config.constant_ping
    /\ config.count = 4
    /\ pc = "while"
    /\ i = 4
    /\ Reports = 4

\* C15: the history is append-only and in step with reporting: the only
\* change to it is the append of the result of an attempt that ended in
\* success or timeout; the reported results are the history in order, short
\* of it by at most the last entry, and only from its append until its
\* report (which an interruption arriving there leaves unmade); at every
\* evaluation of the loop condition history length = reports = counter.
C15_HistoryAppendOnly ==
    /\ [](/\ Reports <= Len(results)
          /\ Len(results) <= Reports + 1
          /\ \A k \in 1..Reports : log[k + 1] = ResultEntry(results[k])
          /\ Len(results) = Reports + 1 =>
                /\ pc = "log_result" \/ State = "Interrupted"
                /\ Reports = i
          /\ pc = "while" =>
                Len(results) = i /\ Reports = i /\ created = i)
    /\ [][\/ results' = results
          \/ /\ pc = "append"
             /\ raised \in {"none", "timeout"}
             /\ results' = Append(results, result)]_vars

C15_Witness ==
    /\ pc = "log_result"
    /\ Len(results) = 3
    /\ Reports = 2
    /\ results[1].is_successful
    /\ ~results[3].is_successful

\* C16: an attempt that ends in resolution failure, in a fault or in an
\* interruption during connect leaves history and counter as they were; an
\* interruption during the sleep leaves the appended and reported result in
\* the history and the counter not incremented; nothing changes either once
\* the loop is left, so in a terminal state history length - counter is 0
\* or 1.
C16_FailedAttemptFrame ==
    /\ [](/\ State \in TerminalStates => Len(results) - i \in {0, 1}
          /\ State = "Aborted" => Len(results) = i /\ Reports = i)
    /\ [][/\ (pc \in {"socket", "connect"}
                /\ State' \in {"Aborted", "Interrupted"}) =>
                /\ results' = results
                /\ i' = i
                /\ Len(results) = i
          /\ (pc = "sleep" /\ State' = "Interrupted") =>
                /\ results' = results
                /\ i' = i
                /\ Len(results) = i + 1
                /\ log[Len(log)] = ResultEntry(results[Len(results)])
          /\ State \in TerminalStates =>
                results' = results /\ i' = i]_vars

C16_Witness ==
    /\ Terminated /\ State = "Interrupted"
    /\ i = 1
    /\ Len(results) = 2
    /\ Reports = 2
    /\ sleeps = 1

\* the position of pc in the loop body, counted down to the loop test
Rank ==
    CASE pc = "while" -> 7
      [] pc = "socket" -> 6
      [] pc = "connect" -> 5
      [] pc = "append" -> 4
      [] pc = "log_result" -> 3
      [] pc = "sleep" -> 2
      [] pc = "incr" -> 1
      [] OTHER -> 0

\* a bound on the number of steps a bounded run has left
StepsLeft ==
    CASE pc = "start" -> 12 + 7 * config.count
      [] pc = "enter" -> 11 + 7 * config.count
      [] pc \in RunningPcs -> 3 + 7 * (config.count - i) + Rank
      [] pc \in {"resolve_error", "except", "except_interrupt"} -> 2
      [] pc = "shutdown" -> 1
      [] OTHER -> 0

\* C17: a bounded run (not constant, count = N) in which every connect and
\* every sleep returns terminates, whatever the attempts' outcomes are: it
\* reaches log_shutdown, having made at most N attempts; every step takes
\* it closer to the end, and it is never stuck before the end.
C17_BoundedRunTerminates ==
    /\ ~config.constant_ping ~> (Terminated /\ created <= config.count)
    /\ [](~config.constant_ping =>
            /\ StepsLeft >= 0
            /\ Terminated \/ ENABLED <<Step>>_vars)
    /\ [][~config.constant_ping => StepsLeft' < StepsLeft]_vars

C17_Witness ==
    /\ Terminated /\ ~config.constant_ping
    /\ config.count = 5
    /\ created = 5
    /\ State = "Finished"
    /\ \E k \in 1..Len(results) : ~results[k].is_successful

\* C18: every attempt connects on a handle of its own, made at the start
\* of its iteration: no handle sees more than one connect call, the handle
\* of attempt k is made only once attempt k-1 is over (its connect has
\* returned or raised and the counter stands at k-1), and at most one handle
\* is still waiting for its connect.
C18_FreshHandlePerAttempt ==
    /\ \A h \in 1..Len(handles) : handles[h].connects <= 1
    /\ \A h \in 1..(Len(handles) - 1) : handles[h].connects = 1
    /\ Len(handles) = created
    /\ created > 0 =>
          /\ sock.id = created
          /\ sock.connects = handles[created].connects
    /\ created \in {i, i + 1}
    /\ pc \in {"while", "socket"} => created = i
    /\ pc = "connect" =>
          /\ created = i + 1
          /\ handles[created] = Handle
          /\ sock = Socket(config, created)
    /\ pc \in {"append", "log_result", "sleep", "incr", "resolve_error"} =>
          created = i + 1 /\ handles[created].connects = 1

C18_Witness ==
    /\ pc = "connect"
    /\ created = 3
    /\ handles[1].connects = 1
    /\ handles[2].connects = 1
    /\ handles[3].connects = 0
    /\ sock.id = 3

====
